---- MODULE Spec2Model ----
(***************************************************************************)
(* The fan-out fetch of src/index.js (lines 59-88): fetchTelemetryData     *)
(* starts one timer per vehicle and resolves a promise when it fires,      *)
(* fetchTelemetryForMultipleVehicles awaits Promise.all of those promises  *)
(* and logs the result.  The model follows the JavaScript event loop: the  *)
(* synchronous part of a call is one step, every timer callback is one     *)
(* step (a task), every promise reaction is one step (a microtask), and    *)
(* no task runs while a microtask is queued.                               *)
(*                                                                         *)
(* The order in which the host runs the timer callbacks is left open: any  *)
(* pending timer may fire next.                                            *)
(***************************************************************************)
EXTENDS Integers, Sequences, FiniteSets, TLC

\* ------------------------------------------------------------- bounds
\* Longest identifier list given to fetchTelemetryForMultipleVehicles.
MaxLen == 3
\* Vehicle identifiers are 1..MaxVehicleId.
MaxVehicleId == 2
\* Math.random() is drawn from {0/RandSteps, ..., (RandSteps-1)/RandSteps}.
RandSteps == 2
\* Most DOM events handled by the demo page in one run.
MaxDomEvents == 2
\* Most DOM events handled by the typed-event example in one run.
MaxTypedEvents == 4
\* Most LocalStorage helper calls in one run.
MaxStoreOps == 3
\* Longest identifier list of a call when two calls are made.
MaxCallLen == 1
\* Most calls of sendTelemetryData in one run.
MaxSends == 2
\* Longest identifier list of the runs checked for termination.
MaxFairLen == 2

\* ---------------------------------------------------- program constants
\* Math.random() * 100 (line 64).
SpeedScale == 100
\* setTimeout(..., 1000) (line 66).
TimerDelay == 1000

VARIABLES
    vehicleIds,   \* the argument of fetchTelemetryForMultipleVehicles
    pc,           \* "script": not yet called; "awaiting": suspended at the
                  \* await of line 73; "done": the function body has ended
    promises,     \* promises[i]: the promise fetchTelemetryData returned
                  \* for vehicleIds[i]
    timers,       \* the setTimeout callbacks scheduled and not yet run
    allState,     \* state of the promise Promise.all returned
    values,       \* Promise.all's list of results, one slot per element
    remaining,    \* Promise.all's count of elements not yet fulfilled
    allReason,    \* rejection reason of Promise.all's promise, if any
    microtasks,   \* the microtask queue (promise reaction jobs)
    console,      \* the lines written by console.log / console.error
    returned,     \* the promise the async function returned to its caller
    settled       \* history: the children in the order they settled

vars == <<vehicleIds, pc, promises, timers, allState, values, remaining,
          allReason, microtasks, console, returned, settled>>

\* The demo page of src/index.js, lines 1-57.
VARIABLES
    elements,     \* the ids for which document.getElementById finds an element
    scriptState,  \* "pending": the script has not run; "registered": lines
                  \* 1-57 have run; "completed": line 88 has run too;
                  \* "failed": the script stopped with a TypeError
    listeners,    \* the listeners added, in the order of addEventListener
    divColor,     \* div.style.backgroundColor
    alerts,       \* the messages shown by alert()
    handled,      \* history: the DOM events dispatched so far
    loaded,       \* the window's load event has fired
    navigated     \* a form submission has replaced the page

pageVars == <<elements, scriptState, listeners, divColor, alerts, handled,
              loaded, navigated>>

\* The LocalStorage helpers of src/README.md, lines 530-559.
VARIABLES
    localStorage, \* per key: whether an item is stored, and its text
    retrieved,    \* what the last getDataFromLocalStorage returned
    requested,    \* history: per key, the value of the last save called
    written,      \* history: per key, the value of the last save whose
                  \* write raised no error
    lastOp        \* history: the last helper call and whether the store
                  \* raised an error in it

storeVars == <<localStorage, retrieved, requested, written, lastOp>>

\* Several calls of fetchTelemetryForMultipleVehicles in one program.
VARIABLES
    calls,        \* per call: its argument array and the state of the call
    passed        \* history: per call, the argument as it was when passed

callVars == <<calls, passed>>

\* TelemetryService.sendTelemetryData of src/README.md, lines 290-319.
VARIABLES
    send,         \* the call in progress: where it is, its argument, the
                  \* response it got and the promise it returned
    sends         \* history: the calls that have ended, with what the
                  \* network did in each

sendVars == <<send, sends>>

\* The scripts src/intro/src/index.ts and src/intro/lib/index.js.
VARIABLES
    tsRun,        \* the run of index.ts: next statement, bindings, console
                  \* output and the assignments made
    jsRun         \* the run of lib/index.js, likewise

introVars == <<tsRun, jsRun>>

\* The examples that share nothing with the page, the store and the calls.
examples == <<sendVars, introVars>>

\* Everything outside the demo page and the fan-out fetch.
beyondPage == <<storeVars, callVars, examples>>

\* Everything outside the fan-out fetch.
outside == <<pageVars, beyondPage>>

\* ------------------------------------------------------------- values
VehicleIdSet == 1..MaxVehicleId

RECURSIVE SeqsUpTo(_, _)
SeqsUpTo(S, n) ==
    IF n = 0 THEN {<<>>}
    ELSE LET shorter == SeqsUpTo(S, n - 1)
         IN  shorter \cup {Append(s, x) : s \in shorter, x \in S}

\* The identifier lists a caller may pass: ordered, duplicates allowed.
InputLists == SeqsUpTo(VehicleIdSet, MaxLen)

\* const randomSpeed = Math.random() * 100, Math.random() in [0, 1).
RandomSpeedsInclusive == {(k * SpeedScale) \div RandSteps : k \in 0..RandSteps}
RandomSpeeds == {(k * SpeedScale) \div RandSteps : k \in 0..(RandSteps - 1)}

\* A promise: its state, and its value or reason as a list of 0 or 1 element.
PendingPromise == [state |-> "pending", value |-> <<>>, reason |-> <<>>]

\* What an async function call delivers: nothing yet, undefined, a list, an error.
NoValue == [kind |-> "none", items |-> <<>>]
Undefined == [kind |-> "undefined", items |-> <<>>]
ArrayValue(items) == [kind |-> "array", items |-> items]

\* A promise settles at most once: resolve / reject act on a pending promise only.
CanSettleAlways(state) == TRUE
CanSettle(state) == state = "pending"

Fulfil(p, v) ==
    IF CanSettle(p.state)
    THEN [state |-> "fulfilled", value |-> <<v>>, reason |-> <<>>]
    ELSE p

Reject(p, e) ==
    IF CanSettle(p.state)
    THEN [state |-> "rejected", value |-> <<>>, reason |-> <<e>>]
    ELSE p

\* ------------------------------------------------------ console lines
\* console.log('Telemetry Data:')
HeaderLine == <<"log", "Telemetry Data:">>
\* console.log(`Vehicle ID: ${data.vehicleId}, Speed: ${data.speed} km/h`)
VehicleLine(data) ==
    <<"log", "Vehicle ID:", data.vehicleId, "Speed:", data.speed, "km/h">>
\* console.error('Error fetching telemetry data:', error)
ErrorLine(error) == <<"error", "Error fetching telemetry data:", error>>

\* ------------------------------------------------- fetchTelemetryData
\* fetchTelemetryData(vehicleId) for the i-th element: a pending promise and
\* one timer whose callback keeps vehicleId and the promise's resolve.
FetchTelemetryDataByIndex(i, vehicleId) ==
    [promise |-> i, vehicleId |-> i, delay |-> TimerDelay]
FetchTelemetryData(i, vehicleId) ==
    [promise |-> i, vehicleId |-> vehicleId, delay |-> TimerDelay]

\* vehicleIds.map(...): the elements whose fetchTelemetryData call is made
\* before the await, all of them.
LaunchedDistinct(ids) ==
    {i \in 1..Len(ids) : \A j \in 1..(i - 1) : ids[j] # ids[i]}
LaunchedOneAtATime(ids) == IF Len(ids) = 0 THEN {} ELSE {1}
Launched(ids) == 1..Len(ids)

\* Promise.all over n elements: fulfilled at once for none, else pending.
InitialAllStateNeverEmpty(n) == "pending"
InitialAllState(n) == IF n = 0 THEN "fulfilled" ELSE "pending"

\* Promise.all's resolve element function stores the value at the element's
\* own index.
StoreElementByArrival(vals, i, v) ==
    LET free == {j \in DOMAIN vals : vals[j] = <<>>}
        slot == IF free = {} THEN i
                ELSE CHOOSE j \in free : \A k \in free : j <= k
    IN  [vals EXCEPT ![slot] = <<v>>]
StoreElement(vals, i, v) == [vals EXCEPT ![i] = <<v>>]

\* Promise.all fulfils its promise when no element is left to wait for.
AnyElementDone(rem) == TRUE
AllElementsDone(rem) == rem = 0

\* The list the await yields: the stored values in index order.
TelemetryData(vals) ==
    LET present == SelectSeq(vals, LAMBDA slot : slot # <<>>)
    IN  [i \in 1..Len(present) |-> present[i][1]]

\* telemetryData.forEach(data => console.log(...)), after the header.
ReportLinesSkipFirst(data) ==
    <<HeaderLine>> \o [i \in 1..(Len(data) - 1) |-> VehicleLine(data[i + 1])]
ReportLines(data) ==
    <<HeaderLine>> \o [i \in 1..Len(data) |-> VehicleLine(data[i])]

\* catch (error) { console.error(...) }
CatchLines(error) == <<ErrorLine(error)>>

\* The function has no return statement, in the try block or in the catch
\* block: its promise is fulfilled with undefined.
ReturnsData(data) == ArrayValue(data)
FunctionResult(data) == Undefined

\* ---------------------------------------------- JSON text and the store
\* A JavaScript value is a tagged tuple: <<"null">>, <<"bool", b>>,
\* <<"num", n>> (n a non-negative integer), <<"str", s>>, <<"arr", items>>,
\* <<"obj", members>> with members a sequence of <<name, value>>, and
\* <<"undefined">>, which JSON cannot represent.  A text is the sequence
\* of its tokens; the content of a string literal is one token.
JsNull == <<"null">>
JsUndefined == <<"undefined">>
Quote == "\""
Digits == <<"0", "1", "2", "3", "4", "5", "6", "7", "8", "9">>

IsDigit(token) == \E d \in 1..Len(Digits) : Digits[d] = token
DigitValue(token) == (CHOOSE d \in 1..Len(Digits) : Digits[d] = token) - 1

RECURSIVE NumberText(_)
NumberText(n) ==
    IF n < Len(Digits)
    THEN <<Digits[n + 1]>>
    ELSE NumberText(n \div Len(Digits)) \o <<Digits[(n % Len(Digits)) + 1]>>

StringText(s) == IF s = "" THEN <<Quote, Quote>> ELSE <<Quote, s, Quote>>

\* JSON.stringify(value), for a value JSON can represent.
RECURSIVE JsonText(_), ItemsText(_), MembersText(_)
JsonText(value) ==
    CASE value[1] = "null" -> <<"null">>
      [] value[1] = "bool" -> IF value[2] THEN <<"true">> ELSE <<"false">>
      [] value[1] = "num" -> NumberText(value[2])
      [] value[1] = "str" -> StringText(value[2])
      [] value[1] = "arr" -> <<"[">> \o ItemsText(value[2]) \o <<"]">>
      [] value[1] = "obj" -> <<"{">> \o MembersText(value[2]) \o <<"}">>
ItemsText(items) ==
    IF items = <<>>
    THEN <<>>
    ELSE JsonText(Head(items))
         \o (IF Tail(items) = <<>> THEN <<>> ELSE <<",">> \o ItemsText(Tail(items)))
MembersText(members) ==
    IF members = <<>>
    THEN <<>>
    ELSE StringText(Head(members)[1]) \o <<":">> \o JsonText(Head(members)[2])
         \o (IF Tail(members) = <<>> THEN <<>> ELSE <<",">> \o MembersText(Tail(members)))

\* The string setItem stores for its second argument: JSON.stringify(value)
\* is undefined for undefined, and setItem turns that into "undefined".
StoredTextCoerced(value) ==
    CASE value[1] = "str" -> IF value[2] = "" THEN <<>> ELSE <<value[2]>>
      [] value[1] = "obj" -> <<"[object Object]">>
      [] value[1] = "undefined" -> <<"undefined">>
      [] OTHER -> JsonText(value)
StoredText(value) ==
    IF value = JsUndefined THEN <<"undefined">> ELSE JsonText(value)

\* JSON.parse: a recursive-descent reader of the tokens.  A result is
\* [ok, value, rest]: whether a value was read, the value, the tokens left.
ParseFailure == [ok |-> FALSE, value |-> JsUndefined, rest |-> <<>>]
Parsed(value, rest) == [ok |-> TRUE, value |-> value, rest |-> rest]

RECURSIVE ParseDigits(_, _)
ParseDigits(tokens, n) ==
    IF tokens # <<>> /\ IsDigit(Head(tokens))
    THEN ParseDigits(Tail(tokens), n * Len(Digits) + DigitValue(Head(tokens)))
    ELSE Parsed(<<"num", n>>, tokens)

\* A number has no leading zero.
ParseNumber(tokens) ==
    IF Head(tokens) = "0" /\ Len(tokens) > 1 /\ IsDigit(tokens[2])
    THEN ParseFailure
    ELSE ParseDigits(tokens, 0)

\* The tokens after an opening quote.
ParseString(tokens) ==
    IF tokens = <<>> THEN ParseFailure
    ELSE IF Head(tokens) = Quote THEN Parsed(<<"str", "">>, Tail(tokens))
    ELSE IF Len(tokens) > 1 /\ tokens[2] = Quote
         THEN Parsed(<<"str", tokens[1]>>, SubSeq(tokens, 3, Len(tokens)))
         ELSE ParseFailure

RECURSIVE ParseValue(_), ParseItems(_, _), ParseMembers(_, _)
ParseValue(tokens) ==
    IF tokens = <<>> THEN ParseFailure
    ELSE LET token == Head(tokens)
             rest == Tail(tokens)
         IN  CASE token = "null" -> Parsed(JsNull, rest)
               [] token = "true" -> Parsed(<<"bool", TRUE>>, rest)
               [] token = "false" -> Parsed(<<"bool", FALSE>>, rest)
               [] IsDigit(token) -> ParseNumber(tokens)
               [] token = Quote -> ParseString(rest)
               [] token = "[" ->
                    IF rest # <<>> /\ Head(rest) = "]"
                    THEN Parsed(<<"arr", <<>>>>, Tail(rest))
                    ELSE ParseItems(rest, <<>>)
               [] token = "{" ->
                    IF rest # <<>> /\ Head(rest) = "}"
                    THEN Parsed(<<"obj", <<>>>>, Tail(rest))
                    ELSE ParseMembers(rest, <<>>)
               [] OTHER -> ParseFailure
ParseItems(tokens, items) ==
    LET item == ParseValue(tokens)
    IN  IF ~ item.ok \/ item.rest = <<>> THEN ParseFailure
        ELSE IF Head(item.rest) = ","
             THEN ParseItems(Tail(item.rest), Append(items, item.value))
        ELSE IF Head(item.rest) = "]"
             THEN Parsed(<<"arr", Append(items, item.value)>>, Tail(item.rest))
             ELSE ParseFailure
ParseMembers(tokens, members) ==
    IF tokens = <<>> \/ Head(tokens) # Quote THEN ParseFailure
    ELSE LET name == ParseString(Tail(tokens))
         IN  IF ~ name.ok \/ name.rest = <<>> \/ Head(name.rest) # ":"
             THEN ParseFailure
             ELSE LET member == ParseValue(Tail(name.rest))
                      all == Append(members, <<name.value[2], member.value>>)
                  IN  IF ~ member.ok \/ member.rest = <<>> THEN ParseFailure
                      ELSE IF Head(member.rest) = ","
                           THEN ParseMembers(Tail(member.rest), all)
                      ELSE IF Head(member.rest) = "}"
                           THEN Parsed(<<"obj", all>>, Tail(member.rest))
                           ELSE ParseFailure

\* JSON.parse(text): the value, or a SyntaxError when the text is not
\* exactly one JSON value.
JsonParse(text) ==
    LET read == ParseValue(text)
    IN  IF read.ok /\ read.rest = <<>>
        THEN [threw |-> FALSE, value |-> read.value]
        ELSE [threw |-> TRUE, value |-> JsUndefined]

\* What fetch resolves with: the status line and the text of the body.
\* response.ok is true for the statuses 200 to 299.
NoResponse == [status |-> 0, body |-> <<>>]
Response(status, body) == [status |-> status, body |-> body]

\* The keys and values the helpers are called with.
StoreKeys == {"telemetry", "settings"}
ExampleData ==
    <<"obj", << <<"action", <<"str", "user_click">>>>,
                <<"timestamp", <<"num", 42>>>> >> >>
JsonValues ==
    { JsNull, <<"bool", FALSE>>, <<"num", 0>>, <<"str", "">>, <<"str", "a">>,
      <<"arr", << <<"num", 0>>, <<"str", "a">> >> >>, ExampleData }
SavedValues == JsonValues \cup {JsUndefined}

\* An entry of localStorage: getItem returns null when no item is present.
NoItem == [present |-> FALSE, text |-> <<>>]
Item(text) == [present |-> TRUE, text |-> text]

\* What other code may have left under a key: the empty string, or a text
\* that is not JSON.
ForeignTexts == {<<>>, <<"{">>}

\* The condition of line 543: null and the empty string are falsy.
HasText(item) == item.present /\ item.text # <<>>

NothingRetrieved == <<"none">>
StorageError == "storage error"
SyntaxError == "SyntaxError"
SaveErrorLine(error) == <<"error", "Error saving data to LocalStorage:", error>>
RetrieveErrorLine(error) ==
    <<"error", "Error retrieving data from LocalStorage:", error>>

\* ------------------------------------------------------------ initial
FanOutIdle ==
    /\ pc = "script"
    /\ promises = <<>>
    /\ timers = {}
    /\ allState = "none"
    /\ values = <<>>
    /\ remaining = 0
    /\ allReason = <<>>
    /\ microtasks = <<>>
    /\ console = <<>>
    /\ returned = [state |-> "none", value |-> NoValue]
    /\ settled = <<>>

\* No page: the function is called on its own.
PageIdle ==
    /\ elements = {}
    /\ scriptState = "completed"
    /\ listeners = <<>>
    /\ divColor = "initial"
    /\ alerts = <<>>
    /\ handled = <<>>
    /\ loaded = FALSE
    /\ navigated = FALSE

\* No LocalStorage helper has been called and nothing is stored.
StoreIdle ==
    /\ localStorage = [key \in StoreKeys |-> NoItem]
    /\ retrieved = NothingRetrieved
    /\ requested = [key \in StoreKeys |-> <<>>]
    /\ written = [key \in StoreKeys |-> <<>>]
    /\ lastOp = [op |-> "none", key |-> "", raised |-> FALSE, number |-> 0]

\* No further call of the function.
CallsIdle ==
    /\ calls = <<>>
    /\ passed = <<>>

\* No telemetry is being sent and neither intro script has started.
SendIdle == [pc |-> "idle", data |-> JsUndefined, response |-> NoResponse,
             returned |-> [state |-> "none", value |-> JsUndefined],
             logged |-> <<>>]
NotStarted == [pc |-> 1, env |-> <<>>, out |-> <<>>, assigned |-> <<>>]
ExamplesIdle ==
    /\ send = SendIdle
    /\ sends = <<>>
    /\ tsRun = NotStarted
    /\ jsRun = NotStarted

Init ==
    /\ vehicleIds \in InputLists
    /\ FanOutIdle
    /\ PageIdle
    /\ StoreIdle
    /\ CallsIdle
    /\ ExamplesIdle

\* ------------------------------------------------------------ actions
\* fetchTelemetryForMultipleVehicles(vehicleIds), up to its suspension at
\* the await: map calls fetchTelemetryData for every element, Promise.all
\* subscribes to every promise, the await subscribes to Promise.all's.
Call ==
    /\ pc = "script"
    /\ LET n == Len(vehicleIds)
       IN  /\ promises' = [i \in 1..n |-> PendingPromise]
           /\ timers' = {FetchTelemetryData(i, vehicleIds[i]) :
                            i \in Launched(vehicleIds)}
           /\ values' = [i \in 1..n |-> <<>>]
           /\ remaining' = n
           /\ allState' = InitialAllState(n)
           /\ microtasks' = IF InitialAllState(n) = "fulfilled"
                            THEN <<<<"resume">>>>
                            ELSE <<>>
    /\ pc' = "awaiting"
    /\ returned' = [state |-> "pending", value |-> NoValue]
    /\ UNCHANGED <<vehicleIds, allReason, console, settled>>

\* The setTimeout callback of fetchTelemetryData: draws the speed and
\* resolves the promise, which queues Promise.all's reaction to it.
TimerFire(t) ==
    /\ t \in timers
    /\ microtasks = <<>>
    /\ \E randomSpeed \in RandomSpeeds :
          promises' = [promises EXCEPT ![t.promise] =
              Fulfil(@, [vehicleId |-> t.vehicleId, speed |-> randomSpeed])]
    /\ timers' = timers \ {t}
    /\ microtasks' = Append(microtasks, <<"resolveElement", t.promise>>)
    /\ settled' = Append(settled, t.promise)
    /\ UNCHANGED <<vehicleIds, pc, allState, values, remaining, allReason,
                   console, returned>>

\* Promise.all's reaction to a fulfilled element.
ResolveElementJob ==
    /\ microtasks # <<>>
    /\ Head(microtasks)[1] = "resolveElement"
    /\ LET i == Head(microtasks)[2]
           done == AllElementsDone(remaining - 1) /\ CanSettle(allState)
       IN  /\ values' = StoreElement(values, i, promises[i].value[1])
           /\ remaining' = remaining - 1
           /\ allState' = IF done THEN "fulfilled" ELSE allState
           /\ microtasks' = IF done
                            THEN Append(Tail(microtasks), <<"resume">>)
                            ELSE Tail(microtasks)
    /\ UNCHANGED <<vehicleIds, pc, promises, timers, allReason, console,
                   returned, settled>>

\* The async function resumes after the await with the list: try block,
\* lines 77-80, then the function ends.
ResumeFulfilled ==
    /\ microtasks # <<>>
    /\ Head(microtasks)[1] = "resume"
    /\ allState = "fulfilled"
    /\ LET telemetryData == TelemetryData(values)
       IN  /\ console' = console \o ReportLines(telemetryData)
           /\ returned' = [state |-> "fulfilled",
                           value |-> FunctionResult(telemetryData)]
    /\ microtasks' = Tail(microtasks)
    /\ pc' = "done"
    /\ UNCHANGED <<vehicleIds, promises, timers, allState, values, remaining,
                   allReason, settled>>

Next ==
    \/ Call /\ UNCHANGED outside
    \/ \E t \in timers : TimerFire(t) /\ UNCHANGED outside
    \/ ResolveElementJob /\ UNCHANGED outside
    \/ ResumeFulfilled /\ UNCHANGED outside

Spec == Init /\ [][Next]_vars

\* ---------------------------------------------------- failing retrievals
\* fetchTelemetryData has no error path.  To exercise the catch block the
\* second specification lets a retrieval fail: the timer callback rejects
\* the promise with a retrieval failure naming the element.
RetrievalFailure(t) == [child |-> t.promise, vehicleId |-> t.vehicleId]

TimerFail(t) ==
    /\ t \in timers
    /\ microtasks = <<>>
    /\ promises' = [promises EXCEPT ![t.promise] =
                        Reject(@, RetrievalFailure(t))]
    /\ timers' = timers \ {t}
    /\ microtasks' = Append(microtasks, <<"rejectElement", t.promise>>)
    /\ settled' = Append(settled, t.promise)
    /\ UNCHANGED <<vehicleIds, pc, allState, values, remaining, allReason,
                   console, returned>>

\* Variant: a rejected element counts as an element done with no value
\* (the behaviour of Promise.allSettled followed by a filter).
RejectElementJobAsEmpty ==
    /\ microtasks # <<>>
    /\ Head(microtasks)[1] = "rejectElement"
    /\ LET done == AllElementsDone(remaining - 1) /\ CanSettle(allState)
       IN  /\ remaining' = remaining - 1
           /\ allState' = IF done THEN "fulfilled" ELSE allState
           /\ microtasks' = IF done
                            THEN Append(Tail(microtasks), <<"resume">>)
                            ELSE Tail(microtasks)
    /\ UNCHANGED <<vehicleIds, pc, promises, timers, values, allReason,
                   console, returned, settled>>

\* Variant: the aggregate is rejected only once every element has settled,
\* with the reason of the failed element that is first in input order.
RejectElementJobInputOrder ==
    /\ microtasks # <<>>
    /\ Head(microtasks)[1] = "rejectElement"
    /\ LET failed == {j \in DOMAIN promises : promises[j].state = "rejected"}
           lowest == CHOOSE j \in failed : \A k \in failed : j <= k
           now == timers = {} /\ CanSettle(allState)
       IN  /\ allState' = IF now THEN "rejected" ELSE allState
           /\ allReason' = IF now THEN promises[lowest].reason ELSE allReason
           /\ microtasks' = IF now
                            THEN Append(Tail(microtasks), <<"resume">>)
                            ELSE Tail(microtasks)
    /\ UNCHANGED <<vehicleIds, pc, promises, timers, values, remaining,
                   console, returned, settled>>

\* Promise.all's reaction to a rejected element: it rejects its promise
\* with that element's reason, unless the promise is already settled.
RejectElementJob ==
    /\ microtasks # <<>>
    /\ Head(microtasks)[1] = "rejectElement"
    /\ LET i == Head(microtasks)[2]
           first == CanSettle(allState)
       IN  /\ allState' = IF first THEN "rejected" ELSE allState
           /\ allReason' = IF first THEN promises[i].reason ELSE allReason
           /\ microtasks' = IF first
                            THEN Append(Tail(microtasks), <<"resume">>)
                            ELSE Tail(microtasks)
    /\ UNCHANGED <<vehicleIds, pc, promises, timers, values, remaining,
                   console, returned, settled>>

\* Variant: the catch block also cancels the retrievals still outstanding
\* (clearTimeout on every pending timer).
ResumeRejectedCancel ==
    /\ microtasks # <<>>
    /\ Head(microtasks)[1] = "resume"
    /\ allState = "rejected"
    /\ console' = console \o CatchLines(allReason[1])
    /\ returned' = [state |-> "fulfilled", value |-> Undefined]
    /\ timers' = {}
    /\ microtasks' = Tail(microtasks)
    /\ pc' = "done"
    /\ UNCHANGED <<vehicleIds, promises, allState, values, remaining,
                   allReason, settled>>

\* Variant: the try/catch encloses the await alone and the logging of lines
\* 77-80 follows it, so that it also runs after the catch block.
ResumeRejectedFallThrough ==
    /\ microtasks # <<>>
    /\ Head(microtasks)[1] = "resume"
    /\ allState = "rejected"
    /\ console' = console \o CatchLines(allReason[1])
                          \o ReportLines(TelemetryData(values))
    /\ returned' = [state |-> "fulfilled", value |-> Undefined]
    /\ microtasks' = Tail(microtasks)
    /\ pc' = "done"
    /\ UNCHANGED <<vehicleIds, promises, timers, allState, values, remaining,
                   allReason, settled>>

\* Variant: the catch block logs and throws the error again, so that the
\* function's promise is rejected.
ResumeRejectedRethrow ==
    /\ microtasks # <<>>
    /\ Head(microtasks)[1] = "resume"
    /\ allState = "rejected"
    /\ console' = console \o CatchLines(allReason[1])
    /\ returned' = [state |-> "rejected",
                    value |-> [kind |-> "error", items |-> <<>>]]
    /\ microtasks' = Tail(microtasks)
    /\ pc' = "done"
    /\ UNCHANGED <<vehicleIds, promises, timers, allState, values, remaining,
                   allReason, settled>>

\* The async function resumes after the await with a throw: catch block,
\* lines 81-83, then the function ends.
ResumeRejected ==
    /\ microtasks # <<>>
    /\ Head(microtasks)[1] = "resume"
    /\ allState = "rejected"
    /\ console' = console \o CatchLines(allReason[1])
    /\ returned' = [state |-> "fulfilled", value |-> Undefined]
    /\ microtasks' = Tail(microtasks)
    /\ pc' = "done"
    /\ UNCHANGED <<vehicleIds, promises, timers, allState, values, remaining,
                   allReason, settled>>

NextInject ==
    \/ Next
    \/ \E t \in timers : TimerFail(t) /\ UNCHANGED outside
    \/ RejectElementJob /\ UNCHANGED outside
    \/ ResumeRejected /\ UNCHANGED outside

SpecInject == Init /\ [][NextInject]_vars

\* ------------------------------------------------------------ fairness
\* The host's event loop does not stop: while a timer is outstanding and no
\* microtask is queued some timer callback is run, and a queued microtask
\* is run.  Nothing obliges the caller to call the function.
TimerTask == \E t \in timers : TimerFire(t) \/ TimerFail(t)
MicrotaskJob ==
    ResolveElementJob \/ RejectElementJob \/ ResumeFulfilled \/ ResumeRejected

EventLoopRuns ==
    /\ WF_vars(TimerTask /\ UNCHANGED outside)
    /\ WF_vars(MicrotaskJob /\ UNCHANGED outside)

\* The lists of the runs checked for termination.
FairLists == SeqsUpTo(VehicleIdSet, MaxFairLen)

InitFair ==
    /\ vehicleIds \in FairLists
    /\ FanOutIdle
    /\ PageIdle
    /\ StoreIdle
    /\ CallsIdle
    /\ ExamplesIdle

SpecFair == InitFair /\ [][NextInject]_vars /\ EventLoopRuns


\* =================================================== the demo page
\* src/index.js, lines 1-57, then the call of line 88.  The script is one
\* task; each DOM event dispatched by the browser is one task.

\* The ids the script looks up (lines 3, 10, 22, 30, 47).
ElementIds == {"myButton", "myDiv", "myInput", "myForm", "customButton"}

\* The keys a keyup event may report.
Keys == {"a", "Enter"}

\* const vehicleIds = [1, 2, 3, 4, 5] (line 86).
ScriptVehicleIds == <<1, 2, 3, 4, 5>>

\* The addEventListener calls of the script, in order (lines 5, 12, 16, 24,
\* 32, 40, 49, 55).
Registrations == <<
    [target |-> "myButton", type |-> "click", handler |-> "alertClicked"],
    [target |-> "myDiv", type |-> "mouseover", handler |-> "yellow"],
    [target |-> "myDiv", type |-> "mouseout", handler |-> "red"],
    [target |-> "myInput", type |-> "keyup", handler |-> "logKey"],
    [target |-> "myForm", type |-> "submit", handler |-> "submitted"],
    [target |-> "window", type |-> "load", handler |-> "loaded"],
    [target |-> "customButton", type |-> "click", handler |-> "dispatchCustom"],
    [target |-> "customButton", type |-> "customEvent", handler |-> "alertCustom"] >>

\* getElementById returns null for an id that is not in the document, and
\* addEventListener on null throws: the registrations that fail.
FailingRegistrationsGuarded(els) == {}
FailingRegistrations(els) ==
    {k \in DOMAIN Registrations : Registrations[k].target \notin els \cup {"window"}}

\* The script stops at the first registration that throws.
RegisteredBy(els) ==
    LET bad == FailingRegistrations(els)
    IN  IF bad = {} THEN Registrations
        ELSE SubSeq(Registrations, 1, (CHOOSE k \in bad : \A m \in bad : k <= m) - 1)

RECURSIVE Flatten(_)
Flatten(seqs) == IF seqs = <<>> THEN <<>> ELSE Head(seqs) \o Flatten(Tail(seqs))

\* The listeners a dispatch of type at target runs, in registration order.
\* The events of the script do not reach listeners of other targets.
Handlers(ls, target, type) ==
    SelectSeq(ls, LAMBDA l : l.target = target /\ l.type = type)

\* button.dispatchEvent(customEvent) (line 52): the custom event is
\* dispatched at button, the element of id myButton.
CustomEventTarget == "myButton"

\* What a handler writes with console.log.
HandlerLogs(h, key) ==
    CASE h = "logKey" -> << <<"log", "Key pressed:", key>> >>
      [] h = "submitted" -> << <<"log", "Form submitted!">> >>
      [] h = "loaded" -> << <<"log", "Page loaded!">> >>
      [] h = "dispatchCustom" -> << <<"log", "hcek">> >>
      [] OTHER -> <<>>

\* What a handler shows with alert(); the click handler of customButton
\* dispatches a customEvent synchronously, whose listeners run inside it.
HandlerAlerts(ls, h) ==
    CASE h = "alertClicked" -> <<"Button clicked!">>
      [] h = "alertCustom" -> <<"Custom event triggered!">>
      [] h = "dispatchCustom" ->
            LET nested == Handlers(ls, CustomEventTarget, "customEvent")
            IN  Flatten([i \in DOMAIN nested |->
                    IF nested[i].handler = "alertCustom"
                    THEN <<"Custom event triggered!">>
                    ELSE <<>>])
      [] OTHER -> <<>>

\* The background colour after the handlers hs have run.
ColorAfterOnce(color, hs) ==
    LET sets == SelectSeq(hs, LAMBDA l : l.handler \in {"yellow", "red"})
    IN  IF sets = <<>> \/ color # "initial" THEN color ELSE sets[Len(sets)].handler
ColorAfter(color, hs) ==
    LET sets == SelectSeq(hs, LAMBDA l : l.handler \in {"yellow", "red"})
    IN  IF sets = <<>> THEN color ELSE sets[Len(sets)].handler

\* event.preventDefault() (line 33).
PreventsDefaultNever(h) == FALSE
PreventsDefault(h) == h = "submitted"

\* The script's lines 1-57: console.log("working") and the registrations.
RunScript ==
    /\ scriptState = "pending"
    /\ console' = Append(console, <<"log", "working">>)
    /\ listeners' = RegisteredBy(elements)
    /\ scriptState' = IF FailingRegistrations(elements) = {}
                      THEN "registered"
                      ELSE "failed"
    /\ UNCHANGED <<vehicleIds, pc, promises, timers, allState, values,
                   remaining, allReason, microtasks, returned, settled>>
    /\ UNCHANGED <<elements, divColor, alerts, handled, loaded, navigated>>

\* The script's lines 86-88, in the same task: the fan-out is started.
ScriptCall ==
    /\ scriptState = "registered"
    /\ Call
    /\ scriptState' = "completed"
    /\ UNCHANGED <<elements, listeners, divColor, alerts, handled, loaded,
                   navigated>>

\* Timers of equal delay run in the order in which they were set.
RunsNext(t, ts) ==
    \A u \in ts : u.delay <= t.delay => t.promise <= u.promise

\* The browser runs a task only when the script has ended, no microtask is
\* queued and the page has not been replaced.
TaskMayRun ==
    /\ scriptState \in {"completed", "failed"}
    /\ microtasks = <<>>
    /\ ~ navigated

\* One DOM event of type at target: its listeners run in order; a submit
\* whose default is not prevented replaces the page, which drops its timers.
HandleEvent(target, type, key) ==
    /\ TaskMayRun
    /\ Len(handled) < MaxDomEvents
    /\ target \in elements \cup {"window"}
    /\ LET hs == Handlers(listeners, target, type)
           prevented == \E i \in DOMAIN hs : PreventsDefault(hs[i].handler)
           leaves == type = "submit" /\ ~ prevented
       IN  /\ console' = console \o
                  Flatten([i \in DOMAIN hs |-> HandlerLogs(hs[i].handler, key)])
           /\ alerts' = alerts \o
                  Flatten([i \in DOMAIN hs |-> HandlerAlerts(listeners, hs[i].handler)])
           /\ divColor' = ColorAfter(divColor, hs)
           /\ navigated' = leaves
           /\ timers' = IF leaves THEN {} ELSE timers
           /\ handled' = Append(handled,
                  [target |-> target, type |-> type, prevented |-> prevented,
                   listeners |-> Len(hs)])
    /\ loaded' = (loaded \/ type = "load")
    /\ UNCHANGED <<vehicleIds, pc, promises, allState, values, remaining,
                   allReason, microtasks, returned, settled>>
    /\ UNCHANGED <<elements, scriptState, listeners>>

ClickButton == HandleEvent("myButton", "click", "")
MouseOver == HandleEvent("myDiv", "mouseover", "")
MouseOut == HandleEvent("myDiv", "mouseout", "")
KeyUp(key) == HandleEvent("myInput", "keyup", key)
Submit == HandleEvent("myForm", "submit", "")
Load == ~ loaded /\ HandleEvent("window", "load", "")
ClickCustomButton == HandleEvent("customButton", "click", "")

InitPage ==
    /\ vehicleIds = ScriptVehicleIds
    /\ FanOutIdle
    /\ elements \in SUBSET ElementIds
    /\ scriptState = "pending"
    /\ listeners = <<>>
    /\ divColor = "initial"
    /\ alerts = <<>>
    /\ handled = <<>>
    /\ loaded = FALSE
    /\ navigated = FALSE
    /\ StoreIdle
    /\ CallsIdle
    /\ ExamplesIdle

NextPage ==
    \/ RunScript /\ UNCHANGED beyondPage
    \/ ScriptCall /\ UNCHANGED beyondPage
    \/ \E t \in timers :
          TaskMayRun /\ RunsNext(t, timers) /\ TimerFire(t) /\ UNCHANGED outside
    \/ ResolveElementJob /\ UNCHANGED outside
    \/ ResumeFulfilled /\ UNCHANGED outside
    \/ ClickButton /\ UNCHANGED beyondPage
    \/ MouseOver /\ UNCHANGED beyondPage
    \/ MouseOut /\ UNCHANGED beyondPage
    \/ \E key \in Keys : KeyUp(key) /\ UNCHANGED beyondPage
    \/ Submit /\ UNCHANGED beyondPage
    \/ Load /\ UNCHANGED beyondPage
    \/ ClickCustomButton /\ UNCHANGED beyondPage

SpecPage == InitPage /\ [][NextPage]_<<vars, outside>>


\* ======================================= README: typed event listeners
\* src/README.md, lines 28-57.  The example is a page script of its own; it
\* is modelled on the page variables, with the fan-out fetch idle.

\* document.getElementById("telemetryButton") (line 44), and another
\* element of the document on which events may occur.
TypedElementIds == {"telemetryButton", "otherElement"}

\* if (telemetryButton) { addEventListener x 2 } (lines 46-56).
TypedRegistrations(els) ==
    IF "telemetryButton" \in els
    THEN << [target |-> "telemetryButton", type |-> "telemetry",
             handler |-> "handleTelemetryEvent"],
            [target |-> "telemetryButton", type |-> "click",
             handler |-> "dispatchTelemetry"] >>
    ELSE <<>>

\* new CustomEvent("telemetry", { detail: { action: "button_click" } })
\* (lines 50-52).
TelemetryEventOf(target) ==
    [type |-> "telemetry", target |-> target,
     detail |-> [action |-> "button_click"]]

\* telemetryButton.dispatchEvent(customEvent) (line 54).
TelemetryEventTargetElsewhere == "otherElement"
TelemetryEventTarget == "telemetryButton"

\* handleTelemetryEvent(event) (lines 37-41).
HandleTelemetryEvent(event) ==
    LET action == event.detail.action
    IN  << <<"log", "Telemetry event:", action>> >>

\* What a listener of the example writes when it runs for a DOM event: the
\* click listener dispatches the custom event synchronously, and the
\* listeners of that event run inside it.
TypedHandlerLogs(ls, h) ==
    IF h = "dispatchTelemetry"
    THEN LET customEvent == TelemetryEventOf(TelemetryEventTarget)
             nested == Handlers(ls, customEvent.target, customEvent.type)
         IN  Flatten([i \in DOMAIN nested |->
                 IF nested[i].handler = "handleTelemetryEvent"
                 THEN HandleTelemetryEvent(customEvent)
                 ELSE <<>>])
    ELSE <<>>

\* The example's script, lines 44-56.
RunTypedScript ==
    /\ scriptState = "pending"
    /\ listeners' = TypedRegistrations(elements)
    /\ scriptState' = "completed"
    /\ UNCHANGED vars
    /\ UNCHANGED <<elements, divColor, alerts, handled, loaded, navigated>>

\* One DOM event of the browser at an element of the document.
TypedEvent(target, type) ==
    /\ scriptState = "completed"
    /\ Len(handled) < MaxTypedEvents
    /\ target \in elements
    /\ LET hs == Handlers(listeners, target, type)
       IN  /\ console' = console \o
                  Flatten([i \in DOMAIN hs |-> TypedHandlerLogs(listeners, hs[i].handler)])
           /\ handled' = Append(handled,
                  [target |-> target, type |-> type, prevented |-> FALSE,
                   listeners |-> Len(hs)])
    /\ UNCHANGED <<vehicleIds, pc, promises, timers, allState, values,
                   remaining, allReason, microtasks, returned, settled>>
    /\ UNCHANGED <<elements, scriptState, listeners, divColor, alerts, loaded,
                   navigated>>

ClickTelemetryButton == TypedEvent("telemetryButton", "click")
MouseOverTelemetryButton == TypedEvent("telemetryButton", "mouseover")
ClickOtherElement == TypedEvent("otherElement", "click")

InitTyped ==
    /\ vehicleIds = <<>>
    /\ FanOutIdle
    /\ elements \in SUBSET TypedElementIds
    /\ scriptState = "pending"
    /\ listeners = <<>>
    /\ divColor = "initial"
    /\ alerts = <<>>
    /\ handled = <<>>
    /\ loaded = FALSE
    /\ navigated = FALSE
    /\ StoreIdle
    /\ CallsIdle
    /\ ExamplesIdle

NextTyped ==
    \/ RunTypedScript /\ UNCHANGED beyondPage
    \/ ClickTelemetryButton /\ UNCHANGED beyondPage
    \/ MouseOverTelemetryButton /\ UNCHANGED beyondPage
    \/ ClickOtherElement /\ UNCHANGED beyondPage

SpecTyped == InitTyped /\ [][NextTyped]_<<vars, outside>>

\* ------------------------------- README: the LocalStorage helpers
\* saveDataToLocalStorage(key, value) and getDataFromLocalStorage(key) are
\* called in any order.  The store may raise an error in setItem (the quota
\* is exceeded) and in getItem (access to the storage is denied); both
\* helpers catch it.
OtherThanConsole ==
    <<vehicleIds, pc, promises, timers, allState, values, remaining,
      allReason, microtasks, returned, settled>>

\* The catch block of getDataFromLocalStorage ends with return null.
ReturnedInCatchRethrown(error) == <<"thrown", error>>
ReturnedInCatch(error) == JsNull

SaveDataToLocalStorage(key, value, raises) ==
    /\ lastOp.number < MaxStoreOps
    /\ IF raises
       THEN /\ console' = Append(console, SaveErrorLine(StorageError))
            /\ UNCHANGED <<localStorage, written>>
       ELSE /\ localStorage' = [localStorage EXCEPT ![key] = Item(StoredText(value))]
            /\ written' = [written EXCEPT ![key] = <<value>>]
            /\ UNCHANGED console
    /\ requested' = [requested EXCEPT ![key] = <<value>>]
    /\ lastOp' = [op |-> "save", key |-> key, raised |-> raises,
                  number |-> lastOp.number + 1]
    /\ UNCHANGED <<retrieved, OtherThanConsole, pageVars, callVars, examples>>

GetDataFromLocalStorage(key, raises) ==
    /\ lastOp.number < MaxStoreOps
    /\ IF raises
       THEN /\ console' = Append(console, RetrieveErrorLine(StorageError))
            /\ retrieved' = ReturnedInCatch(StorageError)
       ELSE IF HasText(localStorage[key])
            THEN LET parsed == JsonParse(localStorage[key].text)
                 IN  IF parsed.threw
                     THEN /\ console' = Append(console, RetrieveErrorLine(SyntaxError))
                          /\ retrieved' = ReturnedInCatch(SyntaxError)
                     ELSE /\ retrieved' = parsed.value
                          /\ UNCHANGED console
            ELSE /\ retrieved' = JsNull
                 /\ UNCHANGED console
    /\ lastOp' = [op |-> "get", key |-> key, raised |-> raises,
                  number |-> lastOp.number + 1]
    /\ UNCHANGED <<localStorage, requested, written, OtherThanConsole,
                   pageVars, callVars, examples>>

InitStore ==
    /\ vehicleIds = <<>>
    /\ FanOutIdle
    /\ PageIdle
    /\ CallsIdle
    /\ ExamplesIdle
    /\ localStorage \in [StoreKeys -> {NoItem} \cup {Item(text) : text \in ForeignTexts}]
    /\ retrieved = NothingRetrieved
    /\ requested = [key \in StoreKeys |-> <<>>]
    /\ written = [key \in StoreKeys |-> <<>>]
    /\ lastOp = [op |-> "none", key |-> "", raised |-> FALSE, number |-> 0]

NextStore ==
    \/ \E key \in StoreKeys, value \in SavedValues, raises \in BOOLEAN :
          SaveDataToLocalStorage(key, value, raises)
    \/ \E key \in StoreKeys, raises \in BOOLEAN :
          GetDataFromLocalStorage(key, raises)

SpecStore == InitStore /\ [][NextStore]_<<vars, outside>>

\* --------------------- several calls of fetchTelemetryForMultipleVehicles
\* Two calls of the function in one program: the second may be made before,
\* while or after the first waits.  Each call has the locals of one call of
\* the single-call model; the timers, the microtask queue and the console
\* are the program's.  Any pending timer may fire next.
CallIds == {"first", "second"}
CallLists == SeqsUpTo(VehicleIdSet, MaxCallLen)

NotCalled(ids) ==
    [argument |-> ids, pc |-> "script", promises |-> <<>>,
     allState |-> "none", values |-> <<>>, remaining |-> 0,
     returned |-> [state |-> "none", value |-> NoValue], lines |-> <<>>]

\* vehicleIds.map(...) builds a new array and leaves vehicleIds as it was.
ArgumentAfterMap(ids) == ids

\* telemetryData, and the result list and count of Promise.all behind it,
\* are created by each call for itself.
ResultsOfShared(c) == "first"
ResultsOf(c) == c

\* The microtasks queued by calls made in the task that is running: only
\* the resumption of a call with an empty list.
QueuedByCallsOnly ==
    \A k \in DOMAIN microtasks :
        /\ microtasks[k][1] = "resume"
        /\ calls[microtasks[k][2]].argument = <<>>

CallOf(c) ==
    /\ calls[c].pc = "script"
    /\ QueuedByCallsOnly
    /\ LET ids == calls[c].argument
           n == Len(ids)
           o == ResultsOf(c)
       IN  /\ calls' = [calls EXCEPT
                  ![c].argument = ArgumentAfterMap(ids),
                  ![c].pc = "awaiting",
                  ![c].promises = [i \in 1..n |-> PendingPromise],
                  ![c].allState = InitialAllState(n),
                  ![c].returned = [state |-> "pending", value |-> NoValue],
                  ![o].values = [i \in 1..n |-> <<>>],
                  ![o].remaining = n]
           /\ timers' = timers \cup
                  {[call |-> c, timer |-> FetchTelemetryData(i, ids[i])] :
                      i \in Launched(ids)}
           /\ microtasks' = IF InitialAllState(n) = "fulfilled"
                            THEN Append(microtasks, <<"resume", c>>)
                            ELSE microtasks
    /\ UNCHANGED <<vehicleIds, pc, promises, allState, values, remaining,
                   allReason, console, returned, settled, passed>>

TimerFireOf(t) ==
    /\ t \in timers
    /\ microtasks = <<>>
    /\ \E randomSpeed \in RandomSpeeds :
          calls' = [calls EXCEPT ![t.call].promises[t.timer.promise] =
              Fulfil(@, [vehicleId |-> t.timer.vehicleId, speed |-> randomSpeed])]
    /\ timers' = timers \ {t}
    /\ microtasks' = Append(microtasks, <<"resolveElement", t.call, t.timer.promise>>)
    /\ UNCHANGED <<vehicleIds, pc, promises, allState, values, remaining,
                   allReason, console, returned, settled, passed>>

ResolveElementJobOf ==
    /\ microtasks # <<>>
    /\ Head(microtasks)[1] = "resolveElement"
    /\ LET c == Head(microtasks)[2]
           i == Head(microtasks)[3]
           o == ResultsOf(c)
           done == AllElementsDone(calls[o].remaining - 1)
                      /\ CanSettle(calls[c].allState)
       IN  /\ calls' = [calls EXCEPT
                  ![o].values = StoreElement(@, i, calls[c].promises[i].value[1]),
                  ![o].remaining = @ - 1,
                  ![c].allState = IF done THEN "fulfilled" ELSE @]
           /\ microtasks' = IF done
                            THEN Append(Tail(microtasks), <<"resume", c>>)
                            ELSE Tail(microtasks)
    /\ UNCHANGED <<vehicleIds, pc, promises, timers, allState, values,
                   remaining, allReason, console, returned, settled, passed>>

ResumeFulfilledOf ==
    /\ microtasks # <<>>
    /\ Head(microtasks)[1] = "resume"
    /\ LET c == Head(microtasks)[2]
           telemetryData == TelemetryData(calls[ResultsOf(c)].values)
       IN  /\ calls[c].allState = "fulfilled"
           /\ console' = console \o ReportLines(telemetryData)
           /\ calls' = [calls EXCEPT
                  ![c].lines = @ \o ReportLines(telemetryData),
                  ![c].returned = [state |-> "fulfilled",
                                   value |-> FunctionResult(telemetryData)],
                  ![c].pc = "done"]
    /\ microtasks' = Tail(microtasks)
    /\ UNCHANGED <<vehicleIds, pc, promises, timers, allState, values,
                   remaining, allReason, returned, settled, passed>>

InitCalls ==
    /\ vehicleIds = <<>>
    /\ FanOutIdle
    /\ PageIdle
    /\ StoreIdle
    /\ ExamplesIdle
    /\ passed \in [CallIds -> CallLists]
    /\ calls = [c \in CallIds |-> NotCalled(passed[c])]

NextCalls ==
    \/ \E c \in CallIds : CallOf(c) /\ UNCHANGED <<pageVars, storeVars, examples>>
    \/ \E t \in timers : TimerFireOf(t) /\ UNCHANGED <<pageVars, storeVars, examples>>
    \/ ResolveElementJobOf /\ UNCHANGED <<pageVars, storeVars, examples>>
    \/ ResumeFulfilledOf /\ UNCHANGED <<pageVars, storeVars, examples>>

SpecCalls == InitCalls /\ [][NextCalls]_<<vars, outside>>

\* ------------------- README: TelemetryService.sendTelemetryData (fetch)
\* One call at a time.  The network either fails (fetch rejects) or answers
\* with a status and a body; reading the body may fail too.
JsCyclic == <<"cyclic">>
SentData == {ExampleData, JsCyclic}
Statuses == {200, 201, 404, 500}
Bodies == {JsonText(ExampleData), JsonText(JsNull), <<>>, <<"{">>}

\* JSON.stringify(data) throws a TypeError for a cyclic structure.
StringifyThrows(data) == data = JsCyclic

\* response.ok
IsOk(response) == response.status \in 200..299

\* if (!response.ok) throw new Error(...)
ThrowsOnStatusNever(response) == FALSE
ThrowsOnStatus(response) == ~ IsOk(response)

StatusError(response) ==
    <<"Error", "Failed to send telemetry data. Status:", response.status>>
NetworkError == <<"TypeError", "fetch failed">>
CyclicError == <<"TypeError", "cyclic object value">>
BodyError == <<"TypeError", "body stream failed">>
BodySyntaxError == <<SyntaxError>>

\* console.error("Error sending telemetry data:", error)
SendErrorLine(error) == <<"error", "Error sending telemetry data:", error>>

\* The catch block ends without a return: the promise of the async method
\* is fulfilled with undefined.
AfterCatchRethrown(error) == [state |-> "rejected", value |-> error]
AfterCatch(error) == [state |-> "fulfilled", value |-> JsUndefined]

\* What the network did in a call, as far as the call got.
NetworkHistory(rejected, response, aborted) ==
    [rejected |-> rejected, response |-> response, aborted |-> aborted]

\* The call ends: it is added to the history and the service is idle again.
Ended(data, network, result, logged) ==
    /\ sends' = Append(sends, [data |-> data, network |-> network,
                               returned |-> result, logged |-> logged])
    /\ console' = console \o logged
    /\ send' = SendIdle

\* The catch block, lines 314-317.
Caught(data, network, error) ==
    Ended(data, network, AfterCatch(error), <<SendErrorLine(error)>>)

OtherThanSend ==
    <<vehicleIds, pc, promises, timers, allState, values, remaining,
      allReason, microtasks, returned, settled, pageVars, storeVars,
      callVars, introVars>>

\* sendTelemetryData(data) up to the first await: the request is built and
\* fetch is called, inside the try block.
SendTelemetryData(data) ==
    /\ send.pc = "idle"
    /\ Len(sends) < MaxSends
    /\ IF StringifyThrows(data)
       THEN Caught(data, NetworkHistory(FALSE, NoResponse, FALSE), CyclicError)
       ELSE /\ send' = [send EXCEPT
                   !.pc = "fetching", !.data = data,
                   !.returned = [state |-> "pending", value |-> JsUndefined]]
            /\ UNCHANGED <<sends, console>>
    /\ UNCHANGED OtherThanSend

\* fetch rejects: the first await throws.
FetchRejects ==
    /\ send.pc = "fetching"
    /\ Caught(send.data, NetworkHistory(TRUE, NoResponse, FALSE), NetworkError)
    /\ UNCHANGED OtherThanSend

\* fetch resolves with a response: lines 305-312.
FetchResolves(response) ==
    /\ send.pc = "fetching"
    /\ IF ThrowsOnStatus(response)
       THEN Caught(send.data, NetworkHistory(FALSE, response, FALSE),
                   StatusError(response))
       ELSE /\ send' = [send EXCEPT !.pc = "reading", !.response = response]
            /\ UNCHANGED <<sends, console>>
    /\ UNCHANGED OtherThanSend

\* response.json() settles: the body is read and parsed, lines 312-313.
JsonSettles(aborted) ==
    /\ send.pc = "reading"
    /\ LET network == NetworkHistory(FALSE, send.response, aborted)
           parsed == JsonParse(send.response.body)
       IN  IF aborted THEN Caught(send.data, network, BodyError)
           ELSE IF parsed.threw THEN Caught(send.data, network, BodySyntaxError)
           ELSE Ended(send.data, network,
                      [state |-> "fulfilled", value |-> parsed.value], <<>>)
    /\ UNCHANGED OtherThanSend

InitSend ==
    /\ vehicleIds = <<>>
    /\ FanOutIdle
    /\ PageIdle
    /\ StoreIdle
    /\ CallsIdle
    /\ ExamplesIdle

NextSend ==
    \/ \E data \in SentData : SendTelemetryData(data)
    \/ FetchRejects
    \/ \E status \in Statuses, body \in Bodies :
          FetchResolves(Response(status, body))
    \/ \E aborted \in BOOLEAN : JsonSettles(aborted)

SpecSend == InitSend /\ [][NextSend]_<<vars, outside>>

\* ------------------------------- the intro scripts: index.ts and its
\* compiled lib/index.js.  Each script is the sequence of its top-level
\* statements, run one statement per step by the same interpreter.
\*
\* Expressions are tagged tuples: <<"lit", value>>, <<"var", name>>,
\* <<"this", field>>, <<"plus", e1, e2>>, <<"template", parts>>,
\* <<"call", function, arguments>> and <<"new", class, arguments>>.  The
\* statements of a constructor or method body are <<"setThis", field, e>>
\* and <<"log", e>>.
Lit(value) == <<"lit", value>>
Num(n) == <<"num", n>>
Str(s) == <<"str", s>>
Var(name) == <<"var", name>>

\* A binding of the scope; the innermost binding of a name is the last.
Binding(name, value) == [name |-> name, value |-> value]
Lookup(scope, name) ==
    LET found == {k \in DOMAIN scope : scope[k].name = name}
    IN  IF found = {} THEN JsUndefined
        ELSE scope[CHOOSE k \in found : \A m \in found : m <= k].value
Rebind(scope, name, value) ==
    [k \in DOMAIN scope |->
        IF scope[k].name = name THEN Binding(name, value) ELSE scope[k]]
BindAll(params, args) == [k \in DOMAIN params |-> Binding(params[k], args[k])]

\* An instance: its class and its fields in the order they were set.
Instance(class, fields) == <<"instance", class, fields>>
Field(object, name) == Lookup(object[3], name)
SetField(object, name, value) ==
    IF \E k \in DOMAIN object[3] : object[3][k].name = name
    THEN Instance(object[2], Rebind(object[3], name, value))
    ELSE Instance(object[2], Append(object[3], Binding(name, value)))

\* The string a template literal makes of a value.
TextOf(value) ==
    CASE value[1] = "str" -> value[2]
      [] value[1] = "num" -> ToString(value[2])
      [] OTHER -> value[1]

RECURSIVE JoinText(_)
JoinText(texts) ==
    IF texts = <<>> THEN "" ELSE Head(texts) \o JoinText(Tail(texts))

\* An expression without side effects, in a scope and with a this value.
RECURSIVE Value(_, _, _)
Value(expr, scope, this) ==
    CASE expr[1] = "lit" -> expr[2]
      [] expr[1] = "var" -> Lookup(scope, expr[2])
      [] expr[1] = "this" -> Field(this, expr[2])
      [] expr[1] = "plus" ->
            Num(Value(expr[2], scope, this)[2] + Value(expr[3], scope, this)[2])
      [] expr[1] = "template" ->
            Str(JoinText([k \in DOMAIN expr[2] |->
                    TextOf(Value(expr[2][k], scope, this))]))
      [] expr[1] = "call" ->
            LET function == Lookup(scope, expr[2])
                args == [k \in DOMAIN expr[3] |-> Value(expr[3][k], scope, this)]
            IN  Value(function[3], scope \o BindAll(function[2], args), this)

\* The statements of a body run in order: what this is afterwards and what
\* was written to the console.
RECURSIVE RunBody(_, _, _, _)
RunBody(body, scope, this, out) ==
    IF body = <<>> THEN [this |-> this, out |-> out]
    ELSE LET statement == Head(body)
         IN  CASE statement[1] = "setThis" ->
                    RunBody(Tail(body), scope,
                            SetField(this, statement[2],
                                     Value(statement[3], scope, this)),
                            out)
               [] statement[1] = "log" ->
                    RunBody(Tail(body), scope, this,
                            Append(out, Value(statement[2], scope, this)))

\* A class value is <<"class", name, parent, constructor, methods>>; parent
\* is "" for a base class, constructor is empty or holds one function, a
\* function is [name, params, types, body].  A class without a constructor of its
\* own constructs with that of its parent; a method is looked up in the
\* class, then in its parents.
NoFunction == [name |-> "", params |-> <<>>, types |-> <<>>, body |-> <<>>]

RECURSIVE ConstructorOf(_, _)
ConstructorOf(scope, class) ==
    IF class[4] # <<>> THEN class[4][1]
    ELSE IF class[3] = "" THEN NoFunction
    ELSE ConstructorOf(scope, Lookup(scope, class[3]))

RECURSIVE MethodOf(_, _, _)
MethodOf(scope, class, name) ==
    LET own == SelectSeq(class[5], LAMBDA method : method.name = name)
    IN  IF own # <<>> THEN own[1]
        ELSE IF class[3] = "" THEN NoFunction
        ELSE MethodOf(scope, Lookup(scope, class[3]), name)

\* new Class(args): the instance and what its constructor wrote.
Construct(scope, className, args) ==
    LET constructor == ConstructorOf(scope, Lookup(scope, className))
    IN  RunBody(constructor.body, scope \o BindAll(constructor.params, args),
                Instance(className, <<>>), <<>>)

\* object.method(args): what the method wrote.
Invoke(scope, object, name, args) ==
    LET method == MethodOf(scope, Lookup(scope, object[2]), name)
    IN  RunBody(method.body, scope \o BindAll(method.params, args), object, <<>>)

\* The right-hand side of a top-level statement: its value and what its
\* evaluation wrote.
Evaluate(expr, scope) ==
    IF expr[1] = "new"
    THEN LET made == Construct(scope, expr[2],
                        [k \in DOMAIN expr[3] |-> Value(expr[3][k], scope, JsUndefined)])
         IN  [value |-> made.this, out |-> made.out]
    ELSE [value |-> Value(expr, scope, JsUndefined), out |-> <<>>]

\* A top-level statement.  type holds the annotations of index.ts, which
\* the compiler erases and the interpreter does not read.
Statement(op, kind, name, type, expr) ==
    [op |-> op, kind |-> kind, name |-> name, type |-> type, expr |-> expr]
Declare(kind, name, type, expr) == Statement("declare", kind, name, type, expr)
AssignTo(name, expr) == Statement("assign", "", name, "", expr)
Log(expr) == Statement("log", "", "", "", expr)
TypeAlias(name, type) == Statement("type", "", name, type, Lit(JsUndefined))
Directive(text) == Statement("directive", "", text, "", Lit(JsUndefined))
ClassDeclaration(name, type, class) == Statement("class", "", name, type, class)
InvokeOn(object, method, args) ==
    Statement("invoke", "", object, "", <<"invoke", method, args>>)

Array(items) == <<"arr", items>>
Point(members) == <<"obj", members>>
Function(params, body) == <<"function", params, body>>
Method(name, params, types, body) ==
    [name |-> name, params |-> params, types |-> types, body |-> body]
Class(name, parent, constructor, methods) ==
    <<"class", name, parent, constructor, methods>>

\* The compiler erases the annotations of a class.
WithoutTypes(class) ==
    Class(class[2], class[3],
          [k \in DOMAIN class[4] |-> [class[4][k] EXCEPT !.types = <<>>]],
          [k \in DOMAIN class[5] |-> [class[5][k] EXCEPT !.types = <<>>]])

\* src/intro/src/index.ts, lines 43-54 and 58-62.
TsAnimal ==
    Class("Animal", "",
          << Method("constructor", <<"name">>, <<"string">>,
                    << <<"setThis", "name", Var("name")>>,
                       <<"log", Var("name")>> >>) >>,
          << Method("move", <<"distance">>, <<"number", "void">>,
                    << <<"log", <<"template",
                           << <<"this", "name">>, Lit(Str(" moved ")),
                              Var("distance"), Lit(Str(" km ")) >> >> >> >>) >>)
TsBird ==
    Class("Bird", "Animal", <<>>,
          << Method("fly", <<"height">>, <<"number", "void">>,
                    << <<"log", <<"template",
                           << <<"this", "name">>, Lit(Str(" moved ")),
                              Var("height"), Lit(Str(" m ")) >> >> >> >>) >>)

\* src/intro/lib/index.js, lines 30-38 and 41-45.
JsAnimal ==
    Class("Animal", "",
          << Method("constructor", <<"name">>, <<>>,
                    << <<"setThis", "name", Var("name")>>,
                       <<"log", Var("name")>> >>) >>,
          << Method("move", <<"distance">>, <<>>,
                    << <<"log", <<"template",
                           << <<"this", "name">>, Lit(Str(" moved ")),
                              Var("distance"), Lit(Str(" km ")) >> >> >> >>) >>)
JsBird ==
    Class("Bird", "Animal", <<>>,
          << Method("fly", <<"height">>, <<>>,
                    << <<"log", <<"template",
                           << <<"this", "name">>, Lit(Str(" moved ")),
                              Var("height"), Lit(Str(" m ")) >> >> >> >>) >>)

\* src/intro/src/index.ts, lines 2-65.
TsProgram == <<
    Declare("const", "hello", "string", Lit(Str("Hi I am TS"))),
    Declare("let", "isLog", "boolean", Lit(<<"bool", FALSE>>)),
    Declare("let", "num", "number", Lit(Num(23))),
    Declare("let", "undef", "undefined", Lit(JsUndefined)),
    Declare("let", "noNull", "null", Lit(JsNull)),
    Declare("let", "sym", "symbol", Lit(<<"symbol", "star">>)),
    Log(Var("hello")),
    Declare("let", "arr", "number[]", Lit(Array(<<Num(1), Num(2), Num(3)>>))),
    Log(Var("arr")),
    AssignTo("arr", Lit(Array(<<Num(3), Num(2), Num(1), Num(9), Num(32), Num(6)>>))),
    Log(Var("arr")),
    Declare("let", "tup", "[number, string]", Lit(Array(<<Num(1), Str("")>>))),
    Log(Var("tup")),
    AssignTo("tup", Lit(Array(<<Num(23), Str("fg")>>))),
    Log(Var("tup")),
    TypeAlias("Add", "(a: number, b: number) => number"),
    Declare("let", "add", "Add",
            Lit(Function(<<"a", "b">>, <<"plus", Var("a"), Var("b")>>))),
    Declare("let", "sum", "", <<"call", "add", <<Lit(Num(2)), Lit(Num(3))>> >>),
    Log(Var("sum")),
    TypeAlias("Point2D", "{ x: number; y: number }"),
    TypeAlias("Point3D", "{ x: number; y: number; z: number }"),
    Declare("let", "point2D", "Point2D",
            Lit(Point(<< <<"x", Num(20)>>, <<"y", Num(30)>> >>))),
    Declare("let", "point3D", "Point3D",
            Lit(Point(<< <<"x", Num(10)>>, <<"y", Num(0)>>, <<"z", Num(12)>> >>))),
    AssignTo("point2D", Var("point3D")),
    Log(Var("point2D")),
    ClassDeclaration("Animal", "public name: string", TsAnimal),
    Declare("let", "cat", "", <<"new", "Animal", <<Lit(Str("cat"))>> >>),
    InvokeOn("cat", "move", <<Lit(Num(23))>>),
    ClassDeclaration("Bird", "", TsBird),
    Declare("let", "parrot", "", <<"new", "Bird", <<Lit(Str("parrot"))>> >>),
    InvokeOn("parrot", "fly", <<Lit(Num(23))>>) >>

\* src/intro/lib/index.js, lines 1-47, in five parts.
JsPrimitives == <<
    Directive("use strict"),
    Declare("const", "hello", "", Lit(Str("Hi I am TS"))),
    Declare("let", "isLog", "", Lit(<<"bool", FALSE>>)),
    Declare("let", "num", "", Lit(Num(23))),
    Declare("let", "undef", "", Lit(JsUndefined)),
    Declare("let", "noNull", "", Lit(JsNull)),
    Declare("let", "sym", "", Lit(<<"symbol", "star">>)),
    Log(Var("hello")) >>
JsArrays == <<
    Declare("let", "arr", "", Lit(Array(<<Num(1), Num(2), Num(3)>>))),
    Log(Var("arr")),
    AssignTo("arr", Lit(Array(<<Num(3), Num(2), Num(1), Num(9), Num(32), Num(6)>>))),
    Log(Var("arr")),
    Declare("let", "tup", "", Lit(Array(<<Num(1), Str("")>>))),
    Log(Var("tup")),
    AssignTo("tup", Lit(Array(<<Num(23), Str("fg")>>))),
    Log(Var("tup")) >>
JsFunctions == <<
    Declare("let", "add", "",
            Lit(Function(<<"a", "b">>, <<"plus", Var("a"), Var("b")>>))),
    Declare("let", "sum", "", <<"call", "add", <<Lit(Num(2)), Lit(Num(3))>> >>),
    Log(Var("sum")) >>
JsPoints == <<
    Declare("let", "point2D", "",
            Lit(Point(<< <<"x", Num(20)>>, <<"y", Num(30)>> >>))),
    Declare("let", "point3D", "",
            Lit(Point(<< <<"x", Num(10)>>, <<"y", Num(0)>>, <<"z", Num(12)>> >>))),
    AssignTo("point2D", Var("point3D")),
    Log(Var("point2D")) >>
JsClasses == <<
    ClassDeclaration("Animal", "", JsAnimal),
    Declare("let", "cat", "", <<"new", "Animal", <<Lit(Str("cat"))>> >>),
    InvokeOn("cat", "move", <<Lit(Num(23))>>),
    ClassDeclaration("Bird", "", JsBird),
    Declare("let", "parrot", "", <<"new", "Bird", <<Lit(Str("parrot"))>> >>),
    InvokeOn("parrot", "fly", <<Lit(Num(23))>>) >>

JsProgramWithoutClasses == JsPrimitives \o JsArrays \o JsFunctions \o JsPoints
JsProgram == JsPrimitives \o JsArrays \o JsFunctions \o JsPoints \o JsClasses

\* One top-level statement: the run after it.
Exec(run, statement) ==
    LET next == [run EXCEPT !.pc = @ + 1]
    IN  CASE statement.op = "declare" ->
               LET made == Evaluate(statement.expr, run.env)
               IN  [next EXCEPT
                       !.env = Append(@, Binding(statement.name, made.value)),
                       !.out = @ \o made.out,
                       !.assigned = Append(@, <<statement.name, made.value>>)]
          [] statement.op = "assign" ->
               LET made == Evaluate(statement.expr, run.env)
               IN  [next EXCEPT
                       !.env = Rebind(@, statement.name, made.value),
                       !.out = @ \o made.out,
                       !.assigned = Append(@, <<statement.name, made.value>>)]
          [] statement.op = "log" ->
               [next EXCEPT
                   !.out = Append(@, Value(statement.expr, run.env, JsUndefined))]
          [] statement.op = "class" ->
               [next EXCEPT
                   !.env = Append(@, Binding(statement.name,
                                             WithoutTypes(statement.expr)))]
          [] statement.op = "invoke" ->
               LET args == [k \in DOMAIN statement.expr[3] |->
                               Value(statement.expr[3][k], run.env, JsUndefined)]
               IN  [next EXCEPT
                       !.out = @ \o Invoke(run.env, Lookup(run.env, statement.name),
                                           statement.expr[2], args).out]
          [] statement.op \in {"type", "directive"} -> next

OtherThanIntro ==
    <<vars, pageVars, storeVars, callVars, sendVars>>

\* The next statement of index.ts, and of lib/index.js.
StepTs ==
    /\ tsRun.pc <= Len(TsProgram)
    /\ tsRun' = Exec(tsRun, TsProgram[tsRun.pc])
    /\ UNCHANGED <<jsRun, OtherThanIntro>>

StepJs ==
    /\ jsRun.pc <= Len(JsProgram)
    /\ jsRun' = Exec(jsRun, JsProgram[jsRun.pc])
    /\ UNCHANGED <<tsRun, OtherThanIntro>>

InitIntro ==
    /\ vehicleIds = <<>>
    /\ FanOutIdle
    /\ PageIdle
    /\ StoreIdle
    /\ CallsIdle
    /\ ExamplesIdle

NextIntro == StepTs \/ StepJs

SpecIntro == InitIntro /\ [][NextIntro]_<<vars, outside>>

\* ========================================================== properties
IsHeaderLine(line) == line = HeaderLine
IsVehicleLine(line) == Len(line) = 6
IsErrorLine(line) == line[1] = "error"

HeaderLines == SelectSeq(console, IsHeaderLine)
VehicleLines == SelectSeq(console, IsVehicleLine)
ErrorLines == SelectSeq(console, IsErrorLine)

Children == DOMAIN promises
FulfilledChildren == {i \in Children : promises[i].state = "fulfilled"}
FailedChildren == {i \in Children : promises[i].state = "rejected"}
AllSucceeded == pc = "done" /\ allState = "fulfilled"
AggregateFailed == pc = "done" /\ allState = "rejected"

\* The sample the i-th retrieval produced.
SampleOf(i) == promises[i].value[1]

\* The failed child that settled first in time.
FirstFailed ==
    LET at == {k \in DOMAIN settled : settled[k] \in FailedChildren}
    IN  settled[CHOOSE k \in at : \A m \in at : k <= m]

\* C1: in every state, the i-th vehicle line of the report carries the i-th
\* input identifier, whatever the order in which the retrievals completed.
C1_ReportInInputOrder ==
    /\ Len(VehicleLines) <= Len(vehicleIds)
    /\ \A i \in DOMAIN VehicleLines : VehicleLines[i][3] = vehicleIds[i]

\* C1 witness: a report of two different identifiers, logged after the
\* second retrieval completed before the first.
C1_Witness ==
    /\ pc = "done"
    /\ Len(VehicleLines) >= 2
    /\ vehicleIds[1] # vehicleIds[2]
    /\ \E k, m \in DOMAIN settled : k < m /\ settled[k] = 2 /\ settled[m] = 1

\* C2: when every retrieval has succeeded and the function has ended, the
\* report has exactly one vehicle line per input element, the i-th being the
\* line of the i-th retrieval's sample, under exactly one header.
C2_ExactlyNEntries ==
    AllSucceeded =>
        /\ Len(VehicleLines) = Len(vehicleIds)
        /\ Len(HeaderLines) = 1
        /\ \A i \in DOMAIN VehicleLines : VehicleLines[i] = VehicleLine(SampleOf(i))

\* C2 witness: a completed report for a list of three or more identifiers.
C2_Witness ==
    /\ AllSucceeded
    /\ Len(vehicleIds) >= 3
    /\ Len(VehicleLines) = Len(vehicleIds)

C4_AllOrNothing ==
    FailedChildren # {} =>
        /\ HeaderLines = <<>>
        /\ VehicleLines = <<>>
        /\ Len(console) <= 1
        /\ pc = "done" => (Len(console) = 1 /\ IsErrorLine(console[1]))

\* C4 witness: three retrievals settled, a success, then a failure, then a
\* success, and the function has ended.
C4_Witness ==
    /\ pc = "done"
    /\ timers = {}
    /\ microtasks = <<>>
    /\ Len(settled) = 3
    /\ settled[1] \in FulfilledChildren
    /\ settled[2] \in FailedChildren
    /\ settled[3] \in FulfilledChildren

C6_SingleFailure ==
    /\ Len(ErrorLines) <= 1
    /\ (pc = "done" /\ FailedChildren # {}) => Len(ErrorLines) = 1

\* C6 witness: every retrieval has settled, two or more failed, one or more
\* succeeded, and one error line was written.
C6_Witness ==
    /\ timers = {}
    /\ microtasks = <<>>
    /\ Cardinality(FailedChildren) >= 2
    /\ FulfilledChildren # {}
    /\ Len(ErrorLines) = 1

\* C7: the reason of the aggregate failure, and the error of the line
\* written, is the reason of the retrieval that failed first in time.
C7_FirstErrorInTime ==
    /\ allState = "rejected" => allReason = promises[FirstFailed].reason
    /\ \A k \in DOMAIN ErrorLines :
          ErrorLines[k][3] = promises[FirstFailed].reason[1]

\* C7 witness: two retrievals failed, the later one in input order first,
\* and the error line names that one.
C7_Witness ==
    /\ pc = "done"
    /\ timers = {}
    /\ microtasks = <<>>
    /\ Cardinality(FailedChildren) >= 2
    /\ \E i \in FailedChildren : i < FirstFailed
    /\ ErrorLines[1][3].child = FirstFailed

\* C8: for the empty list no retrieval is started, Promise.all is fulfilled
\* at once, and the function ends with the header alone on the console: no
\* vehicle line, no error line.
C8_EmptyList ==
    vehicleIds = <<>> =>
        /\ timers = {} /\ promises = <<>> /\ settled = <<>>
        /\ VehicleLines = <<>> /\ ErrorLines = <<>>
        /\ pc = "awaiting" =>
              (allState = "fulfilled" /\ microtasks = <<<<"resume">>>>)
        /\ pc = "done" =>
              /\ allState = "fulfilled"
              /\ console = <<HeaderLine>>
              /\ returned.state = "fulfilled"

\* C8 witness: the call with the empty list has ended.
C8_Witness == vehicleIds = <<>> /\ pc = "done" /\ console # <<>>

\* C9: once called, the function has started one retrieval per element:
\* every pending promise has its timer, and until the first retrieval
\* completes all N timers are outstanding together.
C9_AllInFlight ==
    pc # "script" =>
        /\ Len(promises) = Len(vehicleIds)
        /\ \A i \in Children :
              promises[i].state = "pending" <=> (\E t \in timers : t.promise = i)
        /\ settled = <<>> => Cardinality(timers) = Len(vehicleIds)

\* C9 witness: suspended at the await with three or more retrievals in
\* flight and none completed.
C9_Witness ==
    /\ pc = "awaiting"
    /\ settled = <<>>
    /\ Cardinality(timers) >= 3

\* C10: a header or vehicle line is on the console only when every
\* retrieval has completed: no timer is outstanding and every promise is
\* fulfilled.
C10_NoResultBeforeAll ==
    (HeaderLines # <<>> \/ VehicleLines # <<>>) =>
        /\ timers = {}
        /\ FulfilledChildren = 1..Len(vehicleIds)
        /\ Len(settled) = Len(vehicleIds)

\* C10 witness: the header is on the console for a list of two or more.
C10_Witness ==
    /\ HeaderLines # <<>>
    /\ Len(vehicleIds) >= 2
    /\ Len(settled) = Len(vehicleIds)

\* How many elements of a sequence satisfy Test.
Count(seq, Test(_)) == Len(SelectSeq(seq, Test))

\* C11: identifiers are not de-duplicated.  Once called, every occurrence
\* has its own retrieval (a timer, or a sample, carrying that occurrence's
\* identifier), and a completed report has one line per occurrence: the i-th
\* line has the i-th identifier and every identifier appears as often in
\* the report as in the input.
C11_NoDeduplication ==
    /\ pc # "script" =>
          \A i \in 1..Len(vehicleIds) :
             \/ \E t \in timers : t.promise = i /\ t.vehicleId = vehicleIds[i]
             \/ /\ i \in FulfilledChildren
                /\ SampleOf(i).vehicleId = vehicleIds[i]
    /\ AllSucceeded =>
          /\ \A i \in 1..Len(vehicleIds) :
                i \in DOMAIN VehicleLines /\ VehicleLines[i][3] = vehicleIds[i]
          /\ \A id \in VehicleIdSet :
                Count(VehicleLines, LAMBDA line : line[3] = id)
                    = Count(vehicleIds, LAMBDA x : x = id)

\* C11 witness: a completed report for a list in which an identifier is
\* repeated, with one line per occurrence.
C11_Witness ==
    /\ AllSucceeded
    /\ \E i, j \in 1..Len(vehicleIds) : i < j /\ vehicleIds[i] = vehicleIds[j]
    /\ Len(VehicleLines) = Len(vehicleIds)
    /\ Cardinality({settled[k] : k \in DOMAIN settled}) = Len(vehicleIds)

\* C12: a promise of fetchTelemetryData is never rejected; it is pending
\* exactly while its timer is outstanding and has not settled, and once
\* fulfilled it has settled exactly once, its timer is gone and its sample
\* carries the identifier it was called with.
C12_NeverFails ==
    \A i \in Children :
        /\ promises[i].state \in {"pending", "fulfilled"}
        /\ promises[i].state = "pending" =>
              /\ \E t \in timers : t.promise = i
              /\ Count(settled, LAMBDA x : x = i) = 0
        /\ promises[i].state = "fulfilled" =>
              /\ ~ \E t \in timers : t.promise = i
              /\ Count(settled, LAMBDA x : x = i) = 1
              /\ SampleOf(i).vehicleId = vehicleIds[i]

\* C12 witness: one retrieval resolved, for an identifier that differs from
\* its position in the list, while another is still pending.
C12_Witness ==
    \E i, j \in Children :
        /\ promises[i].state = "fulfilled"
        /\ SampleOf(i).vehicleId # i
        /\ promises[j].state = "pending"

\* C13: every sample produced and every line of every report has a
\* measurement m with 0 <= m < 100.
C13_MeasurementBounded ==
    /\ \A i \in FulfilledChildren :
          0 <= SampleOf(i).speed /\ SampleOf(i).speed < 100
    /\ \A k \in DOMAIN VehicleLines :
          0 <= VehicleLines[k][5] /\ VehicleLines[k][5] < 100

\* C13 witness: a report of two or more lines, one with the lowest
\* measurement and one with a higher one.
C13_Witness ==
    /\ Len(VehicleLines) >= 2
    /\ \E k, m \in DOMAIN VehicleLines :
          VehicleLines[k][5] = 0 /\ VehicleLines[m][5] > 0

\* C14: nothing cancels a retrieval.  A pending promise always keeps its
\* timer, an outstanding timer can fire whenever the microtask queue is
\* empty, a timer leaves the timer set only by settling its promise, and
\* after the function has ended what later retrievals produce is discarded:
\* the console and the function's result no longer change.
C14_NoCancellation ==
    /\ [](\A i \in Children :
             promises[i].state = "pending" <=> (\E t \in timers : t.promise = i))
    /\ [](\A t \in timers : microtasks = <<>> => ENABLED TimerFire(t))
    /\ [][/\ \A t \in timers \ timers' : promises'[t.promise].state # "pending"
          /\ pc = "done" => (console' = console /\ returned' = returned)]_vars

\* C14 witness: a retrieval completed successfully after the aggregate
\* failure had been reported.
C14_Witness ==
    /\ AggregateFailed
    /\ Len(ErrorLines) = 1
    /\ timers = {}
    /\ \E k, m \in DOMAIN settled :
          /\ k < m
          /\ settled[k] = FirstFailed
          /\ settled[m] \in FulfilledChildren

\* C15: a call ends in exactly one outcome.  Nothing is written before the
\* function ends; when it has ended the console holds either a complete
\* report (the header and one line per identifier, no error line) or one
\* error line alone; report lines and an error line never occur together.
C15_ExactlyOneOutcome ==
    /\ ~ (ErrorLines # <<>> /\ (HeaderLines # <<>> \/ VehicleLines # <<>>))
    /\ pc # "done" => console = <<>>
    /\ pc = "done" =>
          \/ /\ ErrorLines = <<>>
             /\ Len(HeaderLines) = 1
             /\ Len(VehicleLines) = Len(vehicleIds)
          \/ /\ Len(ErrorLines) = 1
             /\ Len(console) = 1

\* C15 witness: the call ended with the error line although its first
\* retrieval to complete had succeeded.
C15_Witness ==
    /\ pc = "done"
    /\ Len(settled) >= 2
    /\ settled[1] \in FulfilledChildren
    /\ settled[Len(settled)] \in FailedChildren
    /\ Len(ErrorLines) = 1

\* C19 as stated: on the page whose script has completed, every click on
\* customButton raises the alert 'Custom event triggered!' of the listener
\* of lines 55-57: as many such alerts as clicks.
C19_CustomEventAlerts ==
    scriptState = "completed" =>
        Count(alerts, LAMBDA a : a = "Custom event triggered!")
            = Count(handled, LAMBDA e : e.target = "customButton" /\ e.type = "click")

\* C20: DOM events leave the fan-out alone.  No retrieval exists before the
\* script's call; afterwards there are never more or fewer than the five
\* retrievals of [1,2,3,4,5], none failed, each pending one keeps its timer,
\* they complete in the order they were started, and the report has the
\* header once and one line per identifier in input order.
C20_EventsLeaveFanOutAlone ==
    /\ pc = "script" => (timers = {} /\ promises = <<>>)
    /\ pc # "script" =>
          /\ ~ navigated
          /\ Len(promises) = 5
          /\ \A i \in Children :
                /\ promises[i].state \in {"pending", "fulfilled"}
                /\ promises[i].state = "pending" <=> (\E t \in timers : t.promise = i)
          /\ settled = [k \in 1..Len(settled) |-> k]
    /\ pc = "done" =>
          /\ Count(console, IsHeaderLine) = 1
          /\ [k \in DOMAIN VehicleLines |-> VehicleLines[k][3]] = <<1, 2, 3, 4, 5>>

\* C20 witness: the report was written after two DOM events, one of them a
\* submit handled after the call and before the report.
C20_Witness ==
    /\ pc = "done"
    /\ Len(handled) >= 2
    /\ Len(VehicleLines) = 5
    /\ \E i, j \in DOMAIN console :
          /\ i < j
          /\ console[i] = <<"log", "Form submitted!">>
          /\ console[j] = HeaderLine

TelemetryLines == SelectSeq(console, LAMBDA line : line[2] = "Telemetry event:")
TelemetryClicks ==
    SelectSeq(handled, LAMBDA e : e.target = "telemetryButton" /\ e.type = "click")

\* C18: in the typed-event example, when telemetryButton exists and the
\* script has run, handleTelemetryEvent has run once per click on
\* telemetryButton and for nothing else, each time reading the action
\* 'button_click'; nothing else is written to the console.
C18_OneTelemetryEventPerClick ==
    scriptState = "completed" =>
        /\ Len(TelemetryLines) = Len(TelemetryClicks)
        /\ \A k \in DOMAIN TelemetryLines : TelemetryLines[k][3] = "button_click"
        /\ console = TelemetryLines

\* C18 witness: two clicks on telemetryButton and an event of another kind,
\* with two telemetry lines written.
C18_Witness ==
    /\ Len(TelemetryClicks) = 2
    /\ Len(handled) >= 3
    /\ Len(TelemetryLines) = 2

OwnSamples(c) == [i \in 1..Len(passed[c]) |-> calls[c].promises[i].value[1]]
OwnReport(c) == ReportLines(OwnSamples(c))
TimersOf(c) == {t \in timers : t.call = c}
JobsOf(c) == SelectSeq(microtasks, LAMBDA job : job[2] = c)

DivEvents ==
    SelectSeq(handled, LAMBDA e :
        e.target = "myDiv" /\ e.type \in {"mouseover", "mouseout"})
Submits == SelectSeq(handled, LAMBDA e : e.type = "submit")
SubmitLines == SelectSeq(console, LAMBDA line : line = <<"log", "Form submitted!">>)

\* C21: registration is sequential and unguarded.  Once the script has run,
\* the listeners are the registrations of the script from the first on, in
\* order, every one of them on an element that was found; if an element is
\* missing the script has failed, the registration after the last listener
\* is one on a missing element, and the fan-out has not been started: no
\* call, no timer, no report.  The fan-out is started only when all five
\* elements were found, and then all eight listeners are registered.
C21_StopsAtMissingElement ==
    /\ scriptState # "pending" =>
          /\ Len(listeners) <= Len(Registrations)
          /\ \A k \in DOMAIN listeners :
                /\ listeners[k] = Registrations[k]
                /\ listeners[k].target \in elements \cup {"window"}
          /\ (ElementIds \ elements # {}) =>
                /\ scriptState = "failed"
                /\ Len(listeners) < Len(Registrations)
                /\ Registrations[Len(listeners) + 1].target \in ElementIds \ elements
                /\ pc = "script"
                /\ timers = {}
                /\ Count(console, IsHeaderLine) = 0
          /\ (ElementIds \ elements = {}) =>
                /\ scriptState \in {"registered", "completed"}
                /\ listeners = Registrations
    /\ pc # "script" => (ElementIds \subseteq elements /\ scriptState = "completed")
    /\ scriptState = "completed" => pc # "script"

\* C21 witness: myForm was missing, the script stopped after the four
\* listeners before it, events were handled afterwards and the fan-out was
\* never started.
C21_Witness ==
    /\ elements = ElementIds \ {"myForm"}
    /\ scriptState = "failed"
    /\ Len(listeners) = 4
    /\ Len(handled) = MaxDomEvents
    /\ pc = "script"

Succeeds(s) ==
    /\ s.data # JsCyclic
    /\ ~ s.network.rejected
    /\ s.network.response.status >= 200
    /\ s.network.response.status <= 299
    /\ ~ s.network.aborted
    /\ ParseValue(s.network.response.body).ok
    /\ ParseValue(s.network.response.body).rest = <<>>

\* C24: sendTelemetryData never rejects.  For an ok response whose body is
\* JSON its promise is fulfilled with the parsed body and nothing is
\* logged; for a non-ok response, a network error or a body that cannot be
\* read or parsed it logs one error line and its promise is fulfilled with
\* undefined.  The console holds those error lines and nothing else.
C24_SendNeverRejects ==
    /\ \A k \in DOMAIN sends :
          /\ sends[k].returned.state = "fulfilled"
          /\ IF Succeeds(sends[k])
             THEN /\ sends[k].returned.value
                        = ParseValue(sends[k].network.response.body).value
                  /\ sends[k].logged = <<>>
             ELSE /\ sends[k].returned.value = JsUndefined
                  /\ Len(sends[k].logged) = 1
                  /\ sends[k].logged[1][1] = "error"
    /\ send.returned.state \in {"none", "pending"}
    /\ Len(console) = Count(sends, LAMBDA s : ~ Succeeds(s))

\* C24 witness: one call ended with the parsed body of an ok response and
\* another with a 404, logged once.
C24_Witness ==
    /\ Len(sends) = 2
    /\ sends[1].network.response = Response(200, JsonText(ExampleData))
    /\ sends[1].returned = [state |-> "fulfilled", value |-> ExampleData]
    /\ sends[2].network.response.status = 404
    /\ sends[2].returned.value = JsUndefined
    /\ Len(console) = 1

\* The text stored under key is exactly one JSON value.
HoldsJson(key) ==
    /\ localStorage[key].present
    /\ ParseValue(localStorage[key].text).ok
    /\ ParseValue(localStorage[key].text).rest = <<>>

\* C25: a call of getDataFromLocalStorage returns a value, never throws,
\* and leaves the store as it was; it returns null when the key holds
\* nothing, when the text under the key is not JSON, and when the store
\* raises an error.  A call of saveDataToLocalStorage whose write raises an
\* error leaves the store as it was.
C25_GetNeverThrows ==
    [][/\ lastOp'.op = "get" =>
             /\ localStorage' = localStorage
             /\ retrieved'[1] # "thrown"
             /\ ~ localStorage[lastOp'.key].present => retrieved' = JsNull
             /\ ~ HoldsJson(lastOp'.key) => retrieved' = JsNull
             /\ lastOp'.raised => retrieved' = JsNull
       /\ (lastOp'.op = "save" /\ lastOp'.raised) =>
             localStorage' = localStorage]_<<vars, outside>>

\* C25 witness: a save whose write raised an error left a text that is not
\* JSON under the key, and the get that followed returned null after
\* logging the parse error.
C25_Witness ==
    /\ lastOp.op = "get"
    /\ ~ lastOp.raised
    /\ localStorage[lastOp.key] = Item(<<"{">>)
    /\ requested[lastOp.key] = <<ExampleData>>
    /\ retrieved = JsNull
    /\ console = <<SaveErrorLine(StorageError), RetrieveErrorLine(SyntaxError)>>

\* C26: provided the event loop keeps running the timers and the jobs, a
\* call that is waiting eventually ends, having written its report or its
\* error line: it never waits forever on a retrieval.
C26_EventuallyCompletes ==
    (pc = "awaiting") ~>
        (pc = "done" /\ (Len(HeaderLines) = 1 \/ Len(ErrorLines) = 1))

\* C26 witness: a call with the longest list has ended and no timer or job
\* is left.
C26_Witness ==
    /\ pc = "done"
    /\ Len(vehicleIds) = MaxFairLen
    /\ timers = {}
    /\ microtasks = <<>>
    /\ Len(settled) = MaxFairLen

\* The statements of a program that do something when run, and how many of
\* them a run has executed.
Executable(program) ==
    SelectSeq(program, LAMBDA statement :
        statement.op \notin {"type", "directive"})
Executed(run, program) == Len(Executable(SubSeq(program, 1, run.pc - 1)))

IsPrefix(s, t) == Len(s) <= Len(t) /\ s = SubSeq(t, 1, Len(s))
Finished(run, program) == run.pc = Len(program) + 1

\* The console output the two scripts must produce.
IntroOutput == <<
    Str("Hi I am TS"),
    Array(<<Num(1), Num(2), Num(3)>>),
    Array(<<Num(3), Num(2), Num(1), Num(9), Num(32), Num(6)>>),
    Array(<<Num(1), Str("")>>),
    Array(<<Num(23), Str("fg")>>),
    Num(5),
    Point(<< <<"x", Num(10)>>, <<"y", Num(0)>>, <<"z", Num(12)>> >>),
    Str("cat"),
    Str("cat moved 23 km "),
    Str("parrot"),
    Str("parrot moved 23 m ") >>

====
